---- MODULE Spec2Model ----
(***************************************************************************)
(* Model of the LLM chatbot gateway: POST /question (app/main.py) calls    *)
(* LLMClient.ask (app/clients/llm.py), which is wrapped by a tenacity      *)
(* retry policy and calls chat.completions.create on an AsyncOpenAI client *)
(* built per request by llm_client_lifespan.                               *)
(*                                                                         *)
(* Optional values (Python None / a value) are sequences: <<>> is None and *)
(* <<v>> is the value v.  Exceptions are records [class |-> name, ...];    *)
(* isinstance is computed over the class hierarchy.                        *)
(***************************************************************************)
EXTENDS Integers, Sequences, FiniteSets, TLC

VARIABLES proc, log, settings, load, req

vars == <<proc, log, settings, load, req>>

---------------------------------------------------------------------------
(* Bounds of the model *)

\* number of request slots (tasks that can be in the handler)
NumReqs == 2
Reqs == 1..NumReqs

---------------------------------------------------------------------------
(* Optional values and small helpers *)

None == <<>>

Some(v) == <<v>>

Max(a, b) == IF a >= b THEN a ELSE b

Min(a, b) == IF a <= b THEN a ELSE b

RECURSIVE Pow(_, _)
Pow(b, e) == IF e <= 0 THEN 1 ELSE b * Pow(b, e - 1)

RECURSIVE Rep(_, _)
\* Python's  s * n  on strings
Rep(s, n) ==
    IF n <= 0 THEN ""
    ELSE IF n % 2 = 0 THEN LET half == Rep(s, n \div 2) IN half \o half
    ELSE s \o Rep(s, n - 1)

---------------------------------------------------------------------------
(* Question schema: app/schemas/question.py *)

min_length == 1

max_length == 1024

\* request bodies: {} (no text field) or {"text": s}
Bodies ==
    { None,
      Some(""),
      Some("?"),
      Some("Hello"),
      Some(Rep("x", max_length)),
      Some(Rep("x", max_length + 1)) }

\* mutant: the upper limit is exclusive
QuestionValid_ExclusiveMax(body) ==
    /\ body # None
    /\ Len(body[1]) >= min_length
    /\ Len(body[1]) < max_length

\* pydantic validation of Question.text: required, min_length, max_length
QuestionValid(body) ==
    /\ body # None
    /\ Len(body[1]) >= min_length
    /\ Len(body[1]) <= max_length

---------------------------------------------------------------------------
(* Settings: app/settings.py.  Temperatures are in tenths (5 is 0.5),      *)
(* timeouts in seconds.  An environment is what the process is started     *)
(* with (environment variables and .env); Settings() validates it.         *)

\* str.startswith and str.endswith
StartsWith(s, prefix) ==
    Len(s) >= Len(prefix) /\ SubSeq(s, 1, Len(prefix)) = prefix

EndsWith(s, suffix) ==
    Len(s) >= Len(suffix) /\ SubSeq(s, Len(s) - Len(suffix) + 1, Len(s)) = suffix

\* Python's s[-n:]
LastChars(s, n) == SubSeq(s, Max(1, Len(s) - n + 1), Len(s))

max_tokens_le == 100000

temperature_le == 20

system_prompt_max_length == 4096

request_timeout_le == 300

\* validate_base_url
ValidBaseUrl(v) ==
    /\ StartsWith(v, "http://") \/ StartsWith(v, "https://")
    /\ EndsWith(v, "/v1")

\* a loader that does not check the range of the temperature
SettingsValid_NoTemperatureRange(env) ==
    /\ ValidBaseUrl(env.llm_base_url)
    /\ Len(env.llm_model) >= 1
    /\ env.llm_api_key # None
    /\ Len(env.llm_api_key[1]) >= 1
    /\ env.llm_max_tokens # None
         => (env.llm_max_tokens[1] > 0 /\ env.llm_max_tokens[1] <= max_tokens_le)
    /\ env.llm_system_prompt # None
         => Len(env.llm_system_prompt[1]) <= system_prompt_max_length
    /\ env.request_timeout > 0
    /\ env.request_timeout <= request_timeout_le

\* the Field constraints and the validator of Settings
SettingsValid(env) ==
    /\ ValidBaseUrl(env.llm_base_url)
    /\ Len(env.llm_model) >= 1
    /\ env.llm_api_key # None
    /\ Len(env.llm_api_key[1]) >= 1
    /\ env.llm_max_tokens # None
         => (env.llm_max_tokens[1] > 0 /\ env.llm_max_tokens[1] <= max_tokens_le)
    /\ env.llm_temperature >= 0
    /\ env.llm_temperature <= temperature_le
    /\ env.llm_system_prompt # None
         => Len(env.llm_system_prompt[1]) <= system_prompt_max_length
    /\ env.request_timeout > 0
    /\ env.request_timeout <= request_timeout_le

Envs ==
    [ llm_base_url      : { "https://api.openai.com/v1", "http://localhost:11434/v1",
                            "https://api.mistral.ai", "ftp://api.openai.com/v1" },
      llm_model         : { "gpt-4o-mini", "" },
      llm_api_key       : { None, Some(""), Some("abc"), Some("test"), Some("sk-test-key") },
      llm_max_tokens    : { None, Some(0), Some(500), Some(100001) },
      llm_temperature   : { -1, 0, 5, 20, 21 },
      llm_system_prompt : { None, Some(""), Some("You are a helpful assistant.") },
      request_timeout   : { 0, 30, 300, 301 } ]

\* the settings of a process that is serving requests
SettingsSet ==
    { [ llm_base_url      |-> "https://api.openai.com/v1",
        llm_model         |-> "gpt-4o-mini",
        llm_api_key       |-> Some("sk-test-key"),
        llm_temperature   |-> 5,
        llm_max_tokens    |-> mt,
        llm_system_prompt |-> sp,
        request_timeout   |-> 30 ] :
        mt \in {None, Some(500)},
        sp \in {None, Some(""), Some("You are a helpful assistant.")} }

\* the lines app/main.py logs when the module is loaded, as <<label, value>>
StartupLog(s) ==
    << <<"=== APPLICATION SETTINGS ===", "">>,
       <<"Model", s.llm_model>>,
       <<"Base URL", s.llm_base_url>>,
       <<"API Key", Rep("*", 10) \o LastChars(s.llm_api_key[1], 4)>>,
       <<"Temperature", s.llm_temperature>>,
       <<"Max tokens", s.llm_max_tokens>>,
       <<"System prompt", s.llm_system_prompt>>,
       <<"==============================", "">> >>

\* the lines LLMClient.ask logs before it builds the request
AskLog(s, question) ==
    << <<"=== LLM REQUEST ===", "">>,
       <<"Model", s.llm_model>>,
       <<"Base URL", s.llm_base_url>>,
       <<"Question length", Len(question)>> >>

---------------------------------------------------------------------------
(* Request building: LLMClient.ask, lines 38-55 *)

\* mutant: "is not None" in place of truthiness
TruthyStr_IsNotNone(opt) == opt # None

\* Python truthiness of an Optional[str]
TruthyStr(opt) == opt # None /\ opt[1] # ""

BuildMessages(s, question) ==
    (IF TruthyStr(s.llm_system_prompt)
       THEN << [role |-> "system", content |-> s.llm_system_prompt[1]] >>
       ELSE << >>)
    \o << [role |-> "user", content |-> question] >>

\* mutant: max_tokens is always passed, 0 standing for "unset"
BuildCreateParams_AlwaysMaxTokens(s, question) ==
    [ model       |-> s.llm_model,
      messages    |-> BuildMessages(s, question),
      temperature |-> s.llm_temperature,
      max_tokens  |-> IF s.llm_max_tokens # None THEN s.llm_max_tokens[1] ELSE 0 ]

BuildCreateParams(s, question) ==
    LET base == [ model       |-> s.llm_model,
                  messages    |-> BuildMessages(s, question),
                  temperature |-> s.llm_temperature ]
    IN IF s.llm_max_tokens # None
         THEN base @@ [max_tokens |-> s.llm_max_tokens[1]]
         ELSE base

---------------------------------------------------------------------------
(* Exceptions.  The handler and the retry policy dispatch on the exception *)
(* class with isinstance; Parent is the class hierarchy of the openai      *)
(* package and of Python's builtins.                                       *)

Parent(cls) ==
    CASE cls \in { "RateLimitError", "InternalServerError", "AuthenticationError",
                   "PermissionDeniedError", "BadRequestError", "NotFoundError",
                   "ConflictError", "UnprocessableEntityError" } -> "APIStatusError"
      [] cls = "APIStatusError"     -> "APIError"
      [] cls = "APITimeoutError"    -> "APIConnectionError"
      [] cls = "APIConnectionError" -> "APIError"
      [] cls = "APIError"           -> "OpenAIError"
      [] cls = "OpenAIError"        -> "Exception"
      [] cls = "JSONDecodeError"    -> "ValueError"
      [] cls = "ValueError"         -> "Exception"
      [] cls = "RetryError"         -> "Exception"
      [] OTHER                      -> "object"

RECURSIVE IsInstance(_, _)
IsInstance(cls, base) ==
    IF cls = base THEN TRUE
    ELSE IF cls = "object" THEN FALSE
    ELSE IsInstance(Parent(cls), base)

Exc(cls, status, msg) == [class |-> cls, status |-> status, msg |-> msg]

\* the outcome of a call: a value returned or an exception raised
Returned(v) == [failed |-> FALSE, value |-> Some(v), exc |-> None]

Raised(e) == [failed |-> TRUE, value |-> None, exc |-> Some(e)]

---------------------------------------------------------------------------
(* The provider and the AsyncOpenAI client, as LLMClient.ask line 57 and   *)
(* llm_client_lifespan lines 73-77 use them.  A raw reply is what one HTTP *)
(* request to the provider comes back with.                                *)

Message(content) == [message |-> Some([content |-> content])]

NoMessage == [message |-> None]

Responses ==
    { [choices |-> << >>],
      [choices |-> << NoMessage >>],
      [choices |-> << Message(None) >>],
      [choices |-> << Message(Some("")) >>],
      [choices |-> << Message(Some("Echo: Hello")) >>],
      [choices |-> << Message(Some(" hi ")) >>],
      [choices |-> << Message(Some("A")), Message(Some("B")) >>],
      [choices |-> << Message(Some("")), Message(Some("B")) >>] }

ErrorStatuses == {400, 401, 403, 404, 408, 409, 422, 429, 500, 503, 599}

RawReply(kind, status, response) ==
    [kind |-> kind, status |-> status, response |-> response]

RawReplies ==
    { RawReply("status", n, None) : n \in ErrorStatuses }
    \cup { RawReply("ok", 200, Some(resp)) : resp \in Responses }
    \cup { RawReply("badjson", 200, None),   \* 2xx whose JSON body does not parse
           RawReply("connect", 0, None),     \* no HTTP response: connection failure
           RawReply("timeout", 0, None),     \* no HTTP response within request_timeout
           RawReply("raise", 0, None) }      \* any other exception out of create

\* AsyncOpenAI(...) is built without max_retries, so the client's default applies
DEFAULT_MAX_RETRIES == 2

\* the client re-sends the request on these replies while it has retries left
SdkShouldRetry(raw) ==
    \/ raw.kind \in {"connect", "timeout"}
    \/ /\ raw.kind = "status"
       /\ \/ raw.status \in {408, 409, 429}
          \/ raw.status >= 500

\* the exception class the client raises for a non-2xx status
MakeStatusError(status) ==
    CASE status = 400 -> "BadRequestError"
      [] status = 401 -> "AuthenticationError"
      [] status = 403 -> "PermissionDeniedError"
      [] status = 404 -> "NotFoundError"
      [] status = 409 -> "ConflictError"
      [] status = 422 -> "UnprocessableEntityError"
      [] status = 429 -> "RateLimitError"
      [] status >= 500 -> "InternalServerError"
      [] OTHER         -> "APIStatusError"

\* what chat.completions.create returns or raises for the last raw reply
CreateOutcome(raw) ==
    CASE raw.kind = "ok"      -> Returned(raw.response[1])
      [] raw.kind = "status"  -> Raised(Exc(MakeStatusError(raw.status), raw.status, "status"))
      [] raw.kind = "connect" -> Raised(Exc("APIConnectionError", 0, "Connection error."))
      [] raw.kind = "timeout" -> Raised(Exc("APITimeoutError", 0, "Request timed out."))
      [] raw.kind = "badjson" -> Raised(Exc("JSONDecodeError", raw.status, "Expecting value"))
      [] OTHER                -> Raised(Exc("Exception", 0, "unexpected"))

---------------------------------------------------------------------------
(* Response validation: LLMClient.ask, lines 59-67 *)

\* mutant: the last choice is read instead of the first
ExtractAnswer_LastChoice(response) ==
    IF response.choices = << >>
      THEN Raised(Exc("ValueError", 0, "No response choices received from LLM"))
    ELSE LET choice == response.choices[Len(response.choices)]
         IN IF \/ choice.message = None
               \/ ~TruthyStr(choice.message[1].content)
              THEN Raised(Exc("ValueError", 0, "Empty response received from LLM"))
              ELSE Returned(choice.message[1].content[1])

\* mutant: the message's role is returned instead of its content
ExtractAnswer_ReturnsRole(response) ==
    IF response.choices = << >>
      THEN Raised(Exc("ValueError", 0, "No response choices received from LLM"))
    ELSE LET choice == response.choices[1]
         IN IF \/ choice.message = None
               \/ ~TruthyStr(choice.message[1].content)
              THEN Raised(Exc("ValueError", 0, "Empty response received from LLM"))
              ELSE Returned("assistant")

ExtractAnswer(response) ==
    IF response.choices = << >>
      THEN Raised(Exc("ValueError", 0, "No response choices received from LLM"))
    ELSE LET choice == response.choices[1]
         IN IF \/ choice.message = None
               \/ ~TruthyStr(choice.message[1].content)
              THEN Raised(Exc("ValueError", 0, "Empty response received from LLM"))
              ELSE Returned(choice.message[1].content[1])

\* mutant: an exception of create is caught and replaced by a generic one
AskBody_WrapsErrors(raw) ==
    LET created == CreateOutcome(raw)
    IN IF created.failed
         THEN Raised(Exc("Exception", 0, "LLM request failed"))
         ELSE ExtractAnswer(created.value[1])

\* one run of the body of ask, given how create ended
AskBody(raw) ==
    LET created == CreateOutcome(raw)
    IN IF created.failed THEN created ELSE ExtractAnswer(created.value[1])

---------------------------------------------------------------------------
(* Retry policy: the @retry decorator of LLMClient.ask, lines 26-31 *)

max_attempt_number == 3

wait_multiplier == 1

wait_min == 1

wait_max == 8

exp_base == 2

\* mutant: reraise left at its default
reraise_Default == FALSE

reraise == TRUE

\* mutant: the budget is compared with > instead of >=
stop_after_attempt_OffByOne(attempt_number) == attempt_number > max_attempt_number

stop_after_attempt(attempt_number) == attempt_number >= max_attempt_number

\* mutant: the exponent is the attempt number, not the attempt number less one
wait_exponential_FromTwo(attempt_number) ==
    LET exp    == Pow(exp_base, attempt_number)
        result == wait_multiplier * exp
    IN Max(Max(0, wait_min), Min(result, wait_max))

wait_exponential(attempt_number) ==
    LET exp    == Pow(exp_base, attempt_number - 1)
        result == wait_multiplier * exp
    IN Max(Max(0, wait_min), Min(result, wait_max))

\* mutant: the broader policy, every exception of the openai package is retried
retry_if_exception_type_AnyAPIError(outcome) ==
    /\ outcome.failed
    /\ IsInstance(outcome.exc[1].class, "OpenAIError")

\* mutant: every outcome is retried, a returned value too
retry_if_exception_type_Always(outcome) == TRUE

\* mutant: InternalServerError left out of the retried types
retry_if_exception_type_RateLimitOnly(outcome) ==
    /\ outcome.failed
    /\ IsInstance(outcome.exc[1].class, "RateLimitError")

\* mutant: only InternalServerError is retried
retry_if_exception_type_InternalOnly(outcome) ==
    /\ outcome.failed
    /\ IsInstance(outcome.exc[1].class, "InternalServerError")

retry_if_exception_type(outcome) ==
    /\ outcome.failed
    /\ \/ IsInstance(outcome.exc[1].class, "RateLimitError")
       \/ IsInstance(outcome.exc[1].class, "InternalServerError")

\* what the retry loop does after attempt attempt_number ended with outcome
RetryDecision(attempt_number, outcome) ==
    IF ~retry_if_exception_type(outcome)
      THEN [do |-> "finish", outcome |-> outcome, sleep |-> 0]
    ELSE IF stop_after_attempt(attempt_number)
      THEN [do      |-> "finish",
            outcome |-> IF reraise THEN outcome
                        ELSE Raised(Exc("RetryError", 0, "RetryError")),
            sleep   |-> 0]
    ELSE [do |-> "sleep", outcome |-> outcome, sleep |-> wait_exponential(attempt_number)]

---------------------------------------------------------------------------
(* POST /question: ask_question, app/main.py lines 173-202 *)

HTTP_200_OK == 200

HTTP_401_UNAUTHORIZED == 401

HTTP_422_UNPROCESSABLE == 422

HTTP_429_TOO_MANY_REQUESTS == 429

HTTP_500_INTERNAL_SERVER_ERROR == 500

HTTP_502_BAD_GATEWAY == 502

\* mutant: the chain without its RateLimitError branch
HandlerResponse_NoRateLimitBranch(outcome) ==
    IF ~outcome.failed
      THEN [status |-> HTTP_200_OK, text |-> outcome.value, detail |-> None]
    ELSE LET cls == outcome.exc[1].class
         IN IF IsInstance(cls, "AuthenticationError")
              THEN [status |-> HTTP_401_UNAUTHORIZED, text |-> None,
                    detail |-> Some("Authentication failed with LLM provider")]
            ELSE IF IsInstance(cls, "ValueError")
              THEN [status |-> HTTP_502_BAD_GATEWAY, text |-> None,
                    detail |-> Some("Invalid response from LLM provider")]
            ELSE [status |-> HTTP_500_INTERNAL_SERVER_ERROR, text |-> None,
                  detail |-> Some("Internal server error occurred")]

\* the try/except chain around llm.ask
HandlerResponse(outcome) ==
    IF ~outcome.failed
      THEN [status |-> HTTP_200_OK, text |-> outcome.value, detail |-> None]
    ELSE LET cls == outcome.exc[1].class
         IN IF IsInstance(cls, "AuthenticationError")
              THEN [status |-> HTTP_401_UNAUTHORIZED, text |-> None,
                    detail |-> Some("Authentication failed with LLM provider")]
            ELSE IF IsInstance(cls, "RateLimitError")
              THEN [status |-> HTTP_429_TOO_MANY_REQUESTS, text |-> None,
                    detail |-> Some("Rate limit exceeded, please try again later")]
            ELSE IF IsInstance(cls, "ValueError")
              THEN [status |-> HTTP_502_BAD_GATEWAY, text |-> None,
                    detail |-> Some("Invalid response from LLM provider")]
            ELSE [status |-> HTTP_500_INTERNAL_SERVER_ERROR, text |-> None,
                  detail |-> Some("Internal server error occurred")]

ValidationErrorResponse ==
    [status |-> HTTP_422_UNPROCESSABLE, text |-> None, detail |-> Some("validation error")]

---------------------------------------------------------------------------
(* State.  settings is the cached Settings instance; load is the number of *)
(* requests the callers of the service keep in flight at once (under Spec  *)
(* they send one request at a time); req[r] is the task of request slot r. *)

IdleRequest ==
    [ pc       |-> "idle",     \* idle, ready, inflight, sleep, teardown, done
      body     |-> None,       \* the request body's text field
      client   |-> "none",     \* the request's AsyncOpenAI client: none, open, closed
      asked    |-> FALSE,      \* llm.ask has been called
      attempts |-> 0,          \* calls of chat.completions.create
      http     |-> 0,          \* HTTP requests sent to the provider
      sdkLeft  |-> 0,          \* retries the client has left in the current call
      elapsed  |-> 0,          \* seconds the current call has lost to timed-out requests
      sent     |-> << >>,      \* create_params of each attempt
      hist     |-> << >>,      \* [raw, outcome] of each finished attempt
      waits    |-> << >>,      \* backoff waits slept so far
      sleep    |-> 0,          \* the wait in progress
      outcome  |-> None,       \* how llm.ask ended
      response |-> None ]      \* the HTTP response of the endpoint

Active(r) == req[r].pc # "idle"

NumActive == Cardinality({r \in Reqs : Active(r)})

\* a process that has loaded its settings and serves requests
Init ==
    /\ settings \in SettingsSet
    /\ proc = [phase |-> "serving", env |-> settings]
    /\ log = StartupLog(settings)
    /\ load = 1
    /\ req = [r \in Reqs |-> IdleRequest]

\* the same process, configured with a system prompt, under concurrent
\* requests
InitConcurrent ==
    /\ settings \in { s \in SettingsSet :
                         s.llm_system_prompt = Some("You are a helpful assistant.") }
    /\ proc = [phase |-> "serving", env |-> settings]
    /\ log = StartupLog(settings)
    /\ load = NumReqs
    /\ req = [r \in Reqs |-> IdleRequest]

\* a process about to load app/main.py, in any environment
InitStartup ==
    /\ proc \in [phase : {"start"}, env : Envs]
    /\ settings = None
    /\ log = << >>
    /\ load = 1
    /\ req = [r \in Reqs |-> IdleRequest]

---------------------------------------------------------------------------
(* Process start: app/main.py lines 16-28 *)

\* get_settings() builds Settings from the environment: a validation error
\* ends the import and the process; otherwise the settings are logged.
LoadSettings ==
    /\ proc.phase = "start"
    /\ IF SettingsValid(proc.env)
         THEN /\ settings' = proc.env
              /\ log' = StartupLog(proc.env)
              /\ proc' = [proc EXCEPT !.phase = "serving"]
         ELSE /\ proc' = [proc EXCEPT !.phase = "failed"]
              /\ UNCHANGED <<settings, log>>
    /\ UNCHANGED <<load, req>>

---------------------------------------------------------------------------
(* Steps of one POST /question *)

\* The request arrives: get_llm_client enters llm_client_lifespan (a client
\* is created), the body is validated; a valid one starts the handler,
\* which calls llm.ask.
ReceiveRequest(r, body) ==
    /\ proc.phase = "serving"
    /\ req[r].pc = "idle"
    /\ NumActive < load
    /\ req' = [req EXCEPT ![r] =
                 IF QuestionValid(body)
                   THEN [IdleRequest EXCEPT !.pc = "ready", !.body = body,
                                            !.client = "open", !.asked = TRUE]
                   ELSE [IdleRequest EXCEPT !.pc = "teardown", !.body = body,
                                            !.client = "open",
                                            !.response = Some(ValidationErrorResponse)]]
    /\ UNCHANGED <<proc, log, settings, load>>

\* mutant: the attempt clears the system prompt of the shared settings
StartAttempt_ClearsPrompt(r) ==
    /\ req[r].pc = "ready"
    /\ req' = [req EXCEPT ![r].pc = "inflight",
                          ![r].attempts = @ + 1,
                          ![r].sent = Append(@, BuildCreateParams(settings, req[r].body[1])),
                          ![r].http = @ + 1,
                          ![r].sdkLeft = DEFAULT_MAX_RETRIES]
    /\ settings' = [settings EXCEPT !.llm_system_prompt = None]
    /\ UNCHANGED <<proc, log, load>>

\* mutant: the message list is kept between attempts and appended to
StartAttempt_KeepsMessages(r) ==
    /\ req[r].pc = "ready"
    /\ \E fresh \in {BuildCreateParams(settings, req[r].body[1])} :
          req' = [req EXCEPT ![r].pc = "inflight",
                             ![r].attempts = @ + 1,
                             ![r].sent = Append(@,
                                 IF req[r].sent = << >> THEN fresh
                                 ELSE [fresh EXCEPT !.messages =
                                          req[r].sent[Len(req[r].sent)].messages \o
                                          << [role |-> "user", content |-> req[r].body[1]] >>]),
                             ![r].http = @ + 1,
                             ![r].sdkLeft = DEFAULT_MAX_RETRIES]
    /\ UNCHANGED <<proc, log, settings, load>>

\* mutant: the attempt counter is shared by the requests in progress
StartAttempt_SharedCounter(r) ==
    /\ req[r].pc = "ready"
    /\ req' = [q \in Reqs |->
                 IF q = r
                   THEN [req[q] EXCEPT !.pc = "inflight",
                                       !.attempts = @ + 1,
                                       !.sent = Append(@, BuildCreateParams(settings, req[r].body[1])),
                                       !.http = @ + 1,
                                       !.sdkLeft = DEFAULT_MAX_RETRIES]
                   ELSE IF req[q].pc \in {"ready", "inflight", "sleep"}
                          THEN [req[q] EXCEPT !.attempts = @ + 1]
                          ELSE req[q]]
    /\ UNCHANGED <<proc, log, settings, load>>

\* One attempt begins: ask builds messages and create_params and awaits
\* chat.completions.create, which sends the first HTTP request.
StartAttempt(r) ==
    /\ req[r].pc = "ready"
    /\ req' = [req EXCEPT ![r].pc = "inflight",
                          ![r].attempts = @ + 1,
                          ![r].sent = Append(@, BuildCreateParams(settings, req[r].body[1])),
                          ![r].http = @ + 1,
                          ![r].sdkLeft = DEFAULT_MAX_RETRIES]
    /\ UNCHANGED <<proc, log, settings, load>>

\* the time one HTTP request takes: AsyncOpenAI(timeout=request_timeout)
\* gives up on a request after request_timeout seconds; the time a reply
\* takes to arrive is not counted
ExchangeTime(raw) ==
    IF raw.kind = "timeout" THEN settings.request_timeout ELSE 0

\* The client re-sends the request inside the same call of create.
SdkRetry(r, raw) ==
    /\ req[r].pc = "inflight"
    /\ SdkShouldRetry(raw)
    /\ req[r].sdkLeft > 0
    /\ req' = [req EXCEPT ![r].sdkLeft = @ - 1,
                          ![r].http = @ + 1,
                          ![r].elapsed = @ + ExchangeTime(raw)]
    /\ UNCHANGED <<proc, log, settings, load>>

\* create returns or raises; the rest of ask runs, the retry loop decides,
\* and when the loop finishes the handler builds the response.
FinishAttempt(r, raw) ==
    /\ req[r].pc = "inflight"
    /\ ~(SdkShouldRetry(raw) /\ req[r].sdkLeft > 0)
    /\ \E outcome \in {AskBody(raw)} :
       \E decision \in {RetryDecision(req[r].attempts, outcome)} :
       \E hist \in {Append(req[r].hist, [raw |-> raw, outcome |-> outcome])} :
          req' = [req EXCEPT ![r] =
                    IF decision.do = "sleep"
                      THEN [@ EXCEPT !.pc = "sleep", !.hist = hist, !.sdkLeft = 0, !.elapsed = 0,
                                     !.sleep = decision.sleep]
                      ELSE [@ EXCEPT !.pc = "teardown", !.hist = hist, !.sdkLeft = 0, !.elapsed = 0,
                                     !.outcome = Some(decision.outcome),
                                     !.response = Some(HandlerResponse(decision.outcome))]]
    /\ UNCHANGED <<proc, log, settings, load>>

\* mutant: after the wait the retry loop starts over with a fresh budget
BackoffElapsed_StartsOver(r) ==
    /\ req[r].pc = "sleep"
    /\ req' = [req EXCEPT ![r] = [IdleRequest EXCEPT !.pc = "ready",
                                                     !.body = req[r].body,
                                                     !.client = "open",
                                                     !.asked = TRUE]]
    /\ UNCHANGED <<proc, log, settings, load>>

\* The backoff wait elapses and the retry loop makes the next attempt.
BackoffElapsed(r) ==
    /\ req[r].pc = "sleep"
    /\ req' = [req EXCEPT ![r].pc = "ready",
                          ![r].waits = Append(@, req[r].sleep),
                          ![r].sleep = 0]
    /\ UNCHANGED <<proc, log, settings, load>>

\* mutant: no finally, the client is closed only when the handler returned
CloseClient_OnlyOnSuccess(r) ==
    /\ req[r].pc = "teardown"
    /\ req' = [req EXCEPT ![r].pc = "done",
                          ![r].client = IF req[r].response[1].status = HTTP_200_OK
                                          THEN "closed" ELSE @]
    /\ UNCHANGED <<proc, log, settings, load>>

\* llm_client_lifespan's finally: the request's client is closed.
CloseClient(r) ==
    /\ req[r].pc = "teardown"
    /\ req' = [req EXCEPT ![r].pc = "done", ![r].client = "closed"]
    /\ UNCHANGED <<proc, log, settings, load>>

\* The response has been sent; the request's objects are dropped.
Forget(r) ==
    /\ req[r].pc = "done"
    /\ req' = [req EXCEPT ![r] = IdleRequest]
    /\ UNCHANGED <<proc, log, settings, load>>

Next ==
    \E r \in Reqs :
        \/ \E body \in Bodies : ReceiveRequest(r, body)
        \/ StartAttempt(r)
        \/ \E raw \in RawReplies : SdkRetry(r, raw)
        \/ \E raw \in RawReplies : FinishAttempt(r, raw)
        \/ BackoffElapsed(r)
        \/ CloseClient(r)
        \/ Forget(r)

Spec == Init /\ [][Next]_vars

\* the bodies and replies the start-up, concurrency and fair specifications draw
SmallBodies == { Some(""), Some("Hello") }

SmallReplies ==
    { RawReply("status", 429, None),
      RawReply("status", 401, None),
      RawReply("ok", 200, Some([choices |-> << Message(Some("Echo: Hello")) >>])) }

NextSmall ==
    \E r \in Reqs :
        \/ \E body \in SmallBodies : ReceiveRequest(r, body)
        \/ StartAttempt(r)
        \/ \E raw \in SmallReplies : SdkRetry(r, raw)
        \/ \E raw \in SmallReplies : FinishAttempt(r, raw)
        \/ BackoffElapsed(r)
        \/ CloseClient(r)
        \/ Forget(r)

\* Every call of create returns or raises (each HTTP request is bounded by
\* request_timeout and the client re-sends at most DEFAULT_MAX_RETRIES times),
\* every backoff wait elapses (asyncio.sleep of a finite time), and the event
\* loop runs a task that is ready.
Fairness ==
    \A r \in Reqs :
        /\ WF_vars(StartAttempt(r))
        /\ WF_vars(\E raw \in SmallReplies : SdkRetry(r, raw) \/ FinishAttempt(r, raw))
        /\ WF_vars(BackoffElapsed(r))
        /\ WF_vars(CloseClient(r))

\* one request at a time, with the scheduling the event loop guarantees
FairSpec == Init /\ [][NextSmall]_vars /\ Fairness

NextStartup == LoadSettings \/ NextSmall

SpecStartup == InitStartup /\ [][NextStartup]_vars

SpecConcurrent == InitConcurrent /\ [][NextSmall]_vars

---------------------------------------------------------------------------
(* Vocabulary of the claims *)

\* the failure kind of the design's taxonomy that an outcome of ask carries:
\* the kind is read off the exception the code raised
FailureKind(outcome) ==
    IF ~outcome.failed THEN "Success"
    ELSE LET e == outcome.exc[1]
         IN CASE e.class = "AuthenticationError" -> "AuthenticationError"
              [] e.class = "RateLimitError"      -> "RateLimited"
              [] e.class = "InternalServerError" -> "ProviderInternalError"
              [] e.class \in {"APIConnectionError", "APITimeoutError"} -> "TransportError"
              [] e.class = "JSONDecodeError"     -> "MalformedResponse"
              [] e.class = "ValueError" /\ e.msg = "No response choices received from LLM"
                                                 -> "EmptyChoices"
              [] e.class = "ValueError" /\ e.msg = "Empty response received from LLM"
                                                 -> "EmptyContent"
              [] e.class \in {"PermissionDeniedError", "BadRequestError", "NotFoundError",
                              "ConflictError", "UnprocessableEntityError",
                              "APIStatusError"}  -> "ProviderRejected"
              [] e.class = "RetryError"          -> "RetriesExhausted"
              [] OTHER                           -> "Unexpected"

RetryableKinds == {"RateLimited", "ProviderInternalError"}

\* llm.ask was called for request r and has ended
Finished(r) == req[r].asked /\ req[r].pc \in {"teardown", "done"}

\* the failure kinds of the attempts of request r so far
Kinds(r) == [i \in 1..Len(req[r].hist) |-> FailureKind(req[r].hist[i].outcome)]

AllRetryable(r) == \A i \in 1..Len(req[r].hist) : Kinds(r)[i] \in RetryableKinds

---------------------------------------------------------------------------
(* C1 *)

\* C1: whatever the provider answers, one invocation of ask makes at most 3
\* calls of chat.completions.create; every finished attempt, of whatever
\* retryable kind, counts against the same budget (the count of calls is the
\* count of finished attempts, plus the one in flight).
C1_AtMostThreeAttempts ==
    \A r \in Reqs :
        /\ req[r].attempts <= 3
        /\ Len(req[r].sent) = req[r].attempts
        /\ req[r].attempts =
             Len(req[r].hist) + (IF req[r].pc = "inflight" THEN 1 ELSE 0)

\* three attempts were made, over failures of both retryable kinds
C1_Witness ==
    \E r \in Reqs :
        /\ Finished(r)
        /\ req[r].attempts = 3
        /\ Kinds(r)[1] = "RateLimited"
        /\ Kinds(r)[2] = "ProviderInternalError"
        /\ Kinds(r)[3] = "RateLimited"

---------------------------------------------------------------------------
(* C2 *)

\* C2: an attempt is followed by another one only if it failed with
\* RateLimited or ProviderInternalError; an attempt that fails with any
\* other kind is the last one, at whatever position, and the invocation
\* ends there with that attempt's own failure.
C2_OnlyRetryableFailuresAreRetried ==
    \A r \in Reqs :
        \A i \in 1..Len(req[r].hist) :
            LET o == req[r].hist[i].outcome
            IN /\ (i < Len(req[r].hist) \/ req[r].pc \in {"sleep", "ready", "inflight"})
                    => FailureKind(o) \in RetryableKinds
               /\ (o.failed /\ FailureKind(o) \notin RetryableKinds)
                    => /\ i = Len(req[r].hist)
                       /\ req[r].attempts = i
                       /\ req[r].pc \in {"teardown", "done"}
                       /\ req[r].outcome = Some(o)

\* a transport failure on the second attempt ended the invocation there
C2_Witness ==
    \E r \in Reqs :
        /\ Finished(r)
        /\ req[r].attempts = 2
        /\ Kinds(r)[1] = "RateLimited"
        /\ Kinds(r)[2] = "TransportError"
        /\ req[r].outcome = Some(req[r].hist[2].outcome)

---------------------------------------------------------------------------
(* C3 *)

\* C3: when every attempt failed with a retryable kind, the finished
\* invocation made exactly 3 attempts and raised the third attempt's own
\* exception, never an exception that stands for "retries exhausted".
C3_ExhaustionSurfacesLastFailure ==
    \A r \in Reqs :
        (Finished(r) /\ AllRetryable(r))
            => /\ req[r].attempts = 3
               /\ Len(req[r].hist) = 3
               /\ req[r].outcome = Some(req[r].hist[3].outcome)
               /\ FailureKind(req[r].outcome[1]) = Kinds(r)[3]
               /\ FailureKind(req[r].outcome[1]) # "RetriesExhausted"

\* three provider-internal errors in a row
C3_Witness ==
    \E r \in Reqs :
        /\ Finished(r)
        /\ Len(req[r].hist) = 3
        /\ \A i \in 1..3 : Kinds(r)[i] = "ProviderInternalError"
        /\ FailureKind(req[r].outcome[1]) = "ProviderInternalError"

---------------------------------------------------------------------------
(* C4 *)

\* C4: a successful attempt is the last one: when attempt k returns
\* non-empty content (the attempts before it having failed with retryable
\* kinds), the invocation is over with exactly k attempts and returns the
\* content of attempt k.
C4_SuccessEndsTheInvocation ==
    \A r \in Reqs :
        \A k \in 1..Len(req[r].hist) :
            ~req[r].hist[k].outcome.failed
                => /\ k = Len(req[r].hist)
                   /\ k <= 3
                   /\ req[r].attempts = k
                   /\ req[r].pc \in {"teardown", "done"}
                   /\ \A i \in 1..(k - 1) : Kinds(r)[i] \in RetryableKinds
                   /\ req[r].outcome =
                        Some(Returned(req[r].hist[k].raw.response[1]
                                        .choices[1].message[1].content[1]))

\* RateLimited, RateLimited, success
C4_Witness ==
    \E r \in Reqs :
        /\ Finished(r)
        /\ req[r].attempts = 3
        /\ Kinds(r) = <<"RateLimited", "RateLimited", "Success">>
        /\ req[r].outcome = Some(Returned("Echo: Hello"))

---------------------------------------------------------------------------
(* C5 *)

\* C5: the waits of an invocation are 1 time unit before attempt 2 and 2
\* before attempt 3 (min(8, 2^(n-1)) after failed attempt n); there is none
\* before attempt 1 and none once the invocation has ended.
C5_BackoffWaits ==
    \A r \in Reqs :
        /\ req[r].waits \in { << >>, <<1>>, <<1, 2>> }
        /\ req[r].pc = "sleep"
             => /\ req[r].attempts \in {1, 2}
                /\ Len(req[r].waits) = req[r].attempts - 1
                /\ req[r].sleep = (IF req[r].attempts = 1 THEN 1 ELSE 2)
        /\ req[r].pc \in {"ready", "inflight", "teardown", "done"} => req[r].sleep = 0
        /\ req[r].pc = "ready" => Len(req[r].waits) = req[r].attempts
        /\ (req[r].pc \in {"inflight", "teardown", "done"} /\ req[r].asked)
             => Len(req[r].waits) = req[r].attempts - 1

\* an invocation that slept 1 and then 2 and has ended
C5_Witness ==
    \E r \in Reqs :
        /\ Finished(r)
        /\ req[r].attempts = 3
        /\ req[r].waits = <<1, 2>>
        /\ req[r].sleep = 0

---------------------------------------------------------------------------
(* C6 *)

\* C6: one attempt (one call of chat.completions.create) sends exactly one
\* HTTP request to the provider, so an invocation sends as many requests as
\* it makes attempts, and never more than 3.
C6_OneRequestPerAttempt ==
    \A r \in Reqs :
        /\ req[r].http = req[r].attempts
        /\ req[r].http <= 3

---------------------------------------------------------------------------
(* C7 *)

\* the status the design gives each failure kind
StatusOfKind(kind) ==
    CASE kind = "Success"             -> 200
      [] kind = "AuthenticationError" -> 401
      [] kind = "RateLimited"         -> 429
      [] kind \in {"MalformedResponse", "EmptyChoices", "EmptyContent"} -> 502
      [] OTHER                        -> 500

\* C7: the response of POST /question has the status of the kind that ended
\* ask: AuthenticationError 401, RateLimited 429, MalformedResponse,
\* EmptyChoices and EmptyContent 502, every other failure 500, success 200.
C7_StatusOfEachKind ==
    \A r \in Reqs :
        Finished(r)
            => /\ req[r].response # None
               /\ req[r].response[1].status = StatusOfKind(FailureKind(req[r].outcome[1]))
               /\ FailureKind(req[r].outcome[1]) = Kinds(r)[Len(req[r].hist)]

\* a request that ran out of attempts on RateLimited is answered 429
C7_Witness ==
    \E r \in Reqs :
        /\ Finished(r)
        /\ req[r].attempts = 3
        /\ FailureKind(req[r].outcome[1]) = "RateLimited"
        /\ req[r].response[1].status = 429

---------------------------------------------------------------------------
(* C8 *)

\* C8: a provider reply with status 401 or 403 ends the invocation at that
\* attempt as an AuthenticationError, and the request is answered 401.
C8_401And403AreAuthenticationErrors ==
    \A r \in Reqs :
        \A i \in 1..Len(req[r].hist) :
            LET h == req[r].hist[i]
            IN (h.raw.kind = "status" /\ h.raw.status \in {401, 403})
                 => /\ i = Len(req[r].hist)
                    /\ Finished(r)
                    /\ FailureKind(h.outcome) = "AuthenticationError"
                    /\ req[r].response[1].status = 401

---------------------------------------------------------------------------
(* C9 *)

\* C9: whether an attempt that ended with a non-2xx reply is followed by
\* another attempt depends on the reply's status alone: after 429 and after
\* 500..599 the invocation goes on while it has made fewer than 3 attempts
\* (and ends at the third); after any other non-2xx status it ends.
C9_RetryEligibilityByStatus ==
    \A r \in Reqs :
        \A i \in 1..Len(req[r].hist) :
            LET raw   == req[r].hist[i].raw
                ended == i = Len(req[r].hist) /\ req[r].pc \in {"teardown", "done"}
            IN raw.kind = "status"
                 => IF raw.status = 429 \/ (raw.status >= 500 /\ raw.status <= 599)
                      THEN ended <=> (i = 3)
                      ELSE ended

\* a 503 on the first attempt was followed by a second attempt, a 404 was not
C9_Witness ==
    \E r \in Reqs :
        /\ Finished(r)
        /\ Len(req[r].hist) = 2
        /\ req[r].hist[1].raw = RawReply("status", 503, None)
        /\ req[r].hist[2].raw = RawReply("status", 404, None)

---------------------------------------------------------------------------
(* C10 *)

\* C10: the messages of every attempt are [system, user], the system
\* message carrying system_prompt, when system_prompt is a non-empty string,
\* and [user] when it is absent or empty; the last message is the user
\* message with the question as received.
C10_MessageSequence ==
    \A r \in Reqs :
        \A i \in 1..Len(req[r].sent) :
            LET m  == req[r].sent[i].messages
                sp == settings.llm_system_prompt
            IN /\ IF sp # None /\ sp # Some("")
                    THEN /\ Len(m) = 2
                         /\ m[1] = [role |-> "system", content |-> sp[1]]
                    ELSE Len(m) = 1
               /\ m[Len(m)] = [role |-> "user", content |-> req[r].body[1]]

\* an attempt was sent under an empty-string system prompt
C10_Witness ==
    \E r \in Reqs :
        /\ settings.llm_system_prompt = Some("")
        /\ Len(req[r].sent) >= 1
        /\ Len(req[r].sent[1].messages) = 1
        /\ Len(req[r].body[1]) = 1024

---------------------------------------------------------------------------
(* C11 *)

\* C11: the payload of every attempt carries the configured model and
\* temperature; it has a max_tokens field exactly when llm_max_tokens is
\* set, and then the field is the configured value.
C11_PayloadFields ==
    \A r \in Reqs :
        \A i \in 1..Len(req[r].sent) :
            LET p == req[r].sent[i]
            IN /\ p.model = settings.llm_model
               /\ p.temperature = settings.llm_temperature
               /\ IF settings.llm_max_tokens = None
                    THEN DOMAIN p = {"model", "messages", "temperature"}
                    ELSE /\ DOMAIN p = {"model", "messages", "temperature", "max_tokens"}
                         /\ p.max_tokens = settings.llm_max_tokens[1]

\* a payload was sent with max_tokens unset
C11_Witness ==
    \E r \in Reqs :
        /\ settings.llm_max_tokens = None
        /\ Len(req[r].sent) >= 1
        /\ "max_tokens" \notin DOMAIN req[r].sent[1]

---------------------------------------------------------------------------
(* C12 *)

\* C12: for a reply that create returned, the attempt fails with
\* EmptyChoices when there are no choices, with EmptyContent when the first
\* choice has no message, no content or empty content, and otherwise
\* returns the first choice's content as it is, whatever the other choices.
C12_ResponseExtraction ==
    \A r \in Reqs :
        \A i \in 1..Len(req[r].hist) :
            LET h == req[r].hist[i]
            IN h.raw.kind = "ok"
                 => LET choices == h.raw.response[1].choices
                    IN IF Len(choices) = 0
                         THEN FailureKind(h.outcome) = "EmptyChoices"
                       ELSE IF \/ choices[1].message = None
                               \/ choices[1].message[1].content = None
                               \/ choices[1].message[1].content = Some("")
                         THEN FailureKind(h.outcome) = "EmptyContent"
                       ELSE h.outcome = Returned(choices[1].message[1].content[1])

\* two choices: the first one's content was returned
C12_Witness ==
    \E r \in Reqs :
        /\ Len(req[r].hist) >= 1
        /\ req[r].hist[1].raw.kind = "ok"
        /\ Len(req[r].hist[1].raw.response[1].choices) = 2
        /\ req[r].hist[1].outcome = Returned("A")

---------------------------------------------------------------------------
(* C13 *)

\* C13: a request whose text is missing, empty or longer than 1024
\* characters is answered 422 and never reaches ask: no attempt and no HTTP
\* request is made for it; a request with a text of 1..1024 characters
\* reaches ask.
C13_InvalidQuestionRejected ==
    \A r \in Reqs :
        Active(r)
            => IF \/ req[r].body = None
                  \/ Len(req[r].body[1]) = 0
                  \/ Len(req[r].body[1]) > 1024
                 THEN /\ ~req[r].asked
                      /\ req[r].attempts = 0
                      /\ req[r].http = 0
                      /\ req[r].sent = << >>
                      /\ req[r].response # None
                      /\ req[r].response[1].status = 422
                 ELSE req[r].asked

\* a text of 1025 characters was answered 422, without any attempt
C13_Witness ==
    \E r \in Reqs :
        /\ req[r].pc = "done"
        /\ req[r].body # None
        /\ Len(req[r].body[1]) = 1025
        /\ req[r].response[1].status = 422
        /\ req[r].attempts = 0

---------------------------------------------------------------------------
(* C14 *)

\* C14: when the first attempt's reply has one choice with non-empty
\* content c, ask returns c after exactly one attempt and the endpoint
\* answers 200 with text c.
C14_FirstTrySuccess ==
    \A r \in Reqs :
        (/\ Len(req[r].hist) >= 1
         /\ req[r].hist[1].raw.kind = "ok"
         /\ Len(req[r].hist[1].raw.response[1].choices) = 1
         /\ req[r].hist[1].raw.response[1].choices[1].message # None
         /\ req[r].hist[1].raw.response[1].choices[1].message[1].content
              \notin {None, Some("")})
            => LET c == req[r].hist[1].raw.response[1].choices[1].message[1].content[1]
               IN /\ Finished(r)
                  /\ req[r].attempts = 1
                  /\ Len(req[r].hist) = 1
                  /\ req[r].outcome = Some(Returned(c))
                  /\ req[r].response = Some([status |-> 200, text |-> Some(c),
                                             detail |-> None])

\* "Hello" answered with "Echo: Hello" on the first try
C14_Witness ==
    \E r \in Reqs :
        /\ req[r].pc = "done"
        /\ req[r].body = Some("Hello")
        /\ req[r].attempts = 1
        /\ req[r].response # None
        /\ req[r].response[1].status = 200
        /\ req[r].response[1].text = Some("Echo: Hello")

---------------------------------------------------------------------------
(* C15 *)

\* the attempts request r has made, counted from its own replies
OwnAttempts(r) ==
    Len(req[r].hist) + (IF req[r].pc = "inflight" THEN 1 ELSE 0)

\* the replies that ended the attempts of request r
OwnReplies(r) == [i \in 1..Len(req[r].hist) |-> req[r].hist[i].raw]

\* ask run alone on the replies raws, from attempt i on: the number of
\* attempts it makes and the decision that ends it
RECURSIVE SoloRun(_, _)
SoloRun(raws, i) ==
    LET decision == RetryDecision(i, AskBody(raws[i]))
    IN IF decision.do = "sleep" /\ i < Len(raws)
         THEN SoloRun(raws, i + 1)
         ELSE [attempts |-> i, decision |-> decision]

\* the step request r is waiting to take can be taken now (for a request
\* in flight: its reply, here a successful one, can be delivered)
CanProceed(r) ==
    /\ req[r].pc = "idle" => ENABLED ReceiveRequest(r, Some("Hello"))
    /\ req[r].pc = "ready" => ENABLED StartAttempt(r)
    /\ req[r].pc = "inflight"
         => ENABLED FinishAttempt(r, RawReply("ok", 200,
                       Some([choices |-> << Message(Some("Echo: Hello")) >>])))
    /\ req[r].pc = "sleep" => ENABLED BackoffElapsed(r)
    /\ req[r].pc = "teardown" => ENABLED CloseClient(r)

\* C15: under any interleaving of concurrent requests, each request counts
\* its own attempts, at most 3, sends payloads built from its own question,
\* and ends with the attempt count and the outcome that ask run alone on
\* its own replies would give; whatever the other requests are doing, the
\* step it waits for can be taken; and every step changes the record of one
\* request only.
C15_IndependentInvocations ==
    /\ [] \A r \in Reqs :
             /\ req[r].attempts = OwnAttempts(r)
             /\ req[r].attempts <= max_attempt_number
             /\ \A i \in 1..Len(req[r].sent) :
                    req[r].sent[i] = BuildCreateParams(settings, req[r].body[1])
             /\ Finished(r)
                  => LET solo == SoloRun(OwnReplies(r), 1)
                     IN /\ solo.attempts = req[r].attempts
                        /\ solo.decision.do # "sleep"
                        /\ req[r].outcome = Some(solo.decision.outcome)
                        /\ req[r].response = Some(HandlerResponse(solo.decision.outcome))
             /\ CanProceed(r)
    /\ [][ \E r \in Reqs : \A q \in Reqs \ {r} : req'[q] = req[q] ]_vars

\* one request is in its second backoff wait while another, received and
\* answered meanwhile on its first attempt, has not yet closed its client
C15_Witness ==
    \E r, q \in Reqs :
        /\ r # q
        /\ req[r].pc = "sleep"
        /\ req[r].attempts = 2
        /\ Kinds(r) = <<"RateLimited", "RateLimited">>
        /\ req[q].pc = "teardown"
        /\ req[q].attempts = 1
        /\ req[q].response # None
        /\ req[q].response[1].status = 200

---------------------------------------------------------------------------
(* C16 *)

\* the credentials a configuration can hold in this model
Credentials == {"abc", "test", "sk-test-key"}

\* the configuration c with its credential replaced by k
WithCredential(c, k) == [c EXCEPT !.llm_api_key = Some(k)]

\* C16: the logs and the error details do not depend on the credential: a
\* process started with the same configuration but any other credential,
\* short ones included, writes the same start-up log and the same request
\* log lines, and every response carries the detail its outcome alone
\* determines.
C16_LogsIndependentOfCredential ==
    proc.phase = "serving"
        => /\ \A k \in Credentials :
                  /\ StartupLog(WithCredential(settings, k)) = log
                  /\ \A r \in Reqs :
                        req[r].asked
                            => AskLog(WithCredential(settings, k), req[r].body[1])
                                   = AskLog(settings, req[r].body[1])
           /\ \A r \in Reqs :
                  (Finished(r) /\ req[r].response # None)
                      => req[r].response[1] = HandlerResponse(req[r].outcome[1])

---------------------------------------------------------------------------
(* C19 *)

\* the configuration faults the claim names: no or empty credential, an
\* endpoint that is not an http or https URL, a temperature outside
\* [0.0, 2.0], a timeout that is not positive or above the maximum
ConfigurationFault(env) ==
    \/ env.llm_api_key = None
    \/ env.llm_api_key = Some("")
    \/ ~ (StartsWith(env.llm_base_url, "http://") \/ StartsWith(env.llm_base_url, "https://"))
    \/ env.llm_temperature < 0
    \/ env.llm_temperature > temperature_le
    \/ env.request_timeout <= 0
    \/ env.request_timeout > request_timeout_le

\* no POST /question has been handled
NothingHandled == \A r \in Reqs : req[r] = IdleRequest

---------------------------------------------------------------------------
(* C17 *)

\* C17: there is one client for the whole process, created once and reused
\* by every request: no client is closed while the process serves requests
\* and at most one client is open.
C17_SingleSharedClient ==
    /\ \A r \in Reqs : req[r].client # "closed"
    /\ Cardinality({r \in Reqs : req[r].client = "open"}) <= 1

---------------------------------------------------------------------------
(* C18 *)

\* C18: no step of the service (receiving a request, an attempt, a retry, a
\* backoff wait, the error handling, closing the client) changes the
\* settings: every request and every attempt reads the same values.
C18_SettingsNeverChange == [][settings' = settings]_vars

\* a request with a system prompt went through three attempts and the error
\* handling, and its client was closed
C18_Witness ==
    \E r \in Reqs :
        /\ req[r].pc = "done"
        /\ req[r].attempts = 3
        /\ req[r].outcome[1].failed
        /\ settings.llm_system_prompt = Some("You are a helpful assistant.")
        /\ \A i \in 1..3 : req[r].sent[i] = BuildCreateParams(settings, req[r].body[1])

---------------------------------------------------------------------------
(* C20 *)

\* C20: the failure ask ends with is the failure of its last attempt,
\* unchanged: the exception create raised for the last reply, or the
\* EmptyChoices / EmptyContent failure of the validation of that reply;
\* never a wrapper, never the failure of an earlier attempt.
C20_LastFailureSurfacedUnchanged ==
    \A r \in Reqs :
        (Finished(r) /\ req[r].outcome[1].failed)
            => LET last == req[r].hist[Len(req[r].hist)]
               IN /\ req[r].outcome = Some(last.outcome)
                  /\ IF last.raw.kind = "ok"
                       THEN FailureKind(last.outcome) \in {"EmptyChoices", "EmptyContent"}
                       ELSE last.outcome = CreateOutcome(last.raw)
                  /\ FailureKind(req[r].outcome[1]) # "RetriesExhausted"

\* two rate-limit failures, then a provider-internal error: that one surfaces
C20_Witness ==
    \E r \in Reqs :
        /\ Finished(r)
        /\ Kinds(r) = <<"RateLimited", "RateLimited", "ProviderInternalError">>
        /\ FailureKind(req[r].outcome[1]) = "ProviderInternalError"
        /\ req[r].outcome[1].exc[1].status = 503

---------------------------------------------------------------------------
(* C21 *)

\* an absolute URL with the http or https scheme and something after it
AbsoluteHttpUrl(url) ==
    \/ StartsWith(url, "http://") /\ Len(url) > Len("http://")
    \/ StartsWith(url, "https://") /\ Len(url) > Len("https://")

\* every field of env but the endpoint passes the loader
OtherFieldsValid(env) ==
    SettingsValid([env EXCEPT !.llm_base_url = "https://api.openai.com/v1"])

\* C21: once loading has run, a configuration whose endpoint is an absolute
\* http or https URL (its other fields valid) has been accepted, one whose
\* endpoint has another scheme has been rejected, and an accepted
\* configuration holds endpoint, model, credential, temperature and
\* max_tokens exactly as supplied.
C21_EndpointAcceptance ==
    proc.phase # "start"
        => /\ (OtherFieldsValid(proc.env) /\ AbsoluteHttpUrl(proc.env.llm_base_url))
                 => proc.phase = "serving"
           /\ ~ AbsoluteHttpUrl(proc.env.llm_base_url) => proc.phase = "failed"
           /\ proc.phase = "serving"
                 => /\ settings.llm_base_url = proc.env.llm_base_url
                    /\ settings.llm_model = proc.env.llm_model
                    /\ settings.llm_api_key = proc.env.llm_api_key
                    /\ settings.llm_temperature = proc.env.llm_temperature
                    /\ settings.llm_max_tokens = proc.env.llm_max_tokens

---------------------------------------------------------------------------
(* C22 *)

\* C22: an attempt never lasts longer than request_timeout: while a call of
\* create is in progress the time it has spent is within the budget, and
\* every attempt begins with nothing spent, whatever the earlier attempts
\* and backoff waits took.
C22_TimeoutPerAttempt ==
    \A r \in Reqs :
        /\ req[r].pc = "inflight" => req[r].elapsed <= settings.request_timeout
        /\ req[r].pc \in {"ready", "sleep"} => req[r].elapsed = 0

---------------------------------------------------------------------------
(* C23 *)

\* the time request r has spent or is spending in backoff waits
RECURSIVE SumSeq(_)
SumSeq(q) == IF q = << >> THEN 0 ELSE Head(q) + SumSeq(Tail(q))

TotalWait(r) == SumSeq(req[r].waits) + req[r].sleep

\* C23: when every call of create ends and every backoff wait elapses, an
\* invocation of ask that has begun reaches its final outcome; at every
\* moment it has made at most 3 attempts and at most 2 backoff waits, which
\* add up to at most 3 time units.
C23_AskTerminates ==
    /\ [] \A r \in Reqs :
             /\ req[r].attempts <= 3
             /\ Len(req[r].waits) + (IF req[r].pc = "sleep" THEN 1 ELSE 0) <= 2
             /\ TotalWait(r) <= 3
    /\ \A r \in Reqs :
          (req[r].asked /\ ~ Finished(r))
              ~> (Finished(r) /\ req[r].outcome # None)

\* the longest invocation: three attempts, each through all the client's
\* re-sends, and both backoff waits
C23_Witness ==
    \E r \in Reqs :
        /\ Finished(r)
        /\ req[r].outcome # None
        /\ req[r].attempts = 3
        /\ req[r].http = 9
        /\ Len(req[r].waits) = 2
        /\ TotalWait(r) = 3

---------------------------------------------------------------------------
(* C24 *)

\* C24: a request has a client from its arrival on; the client is open as
\* long as the handler runs (every attempt is issued on an open client) and
\* until the response is determined, and closed once the request is over,
\* whatever the response: when no request is in progress no client is open.
\* A client is closed by one step only, taken after the handler has
\* finished, and a closed client is never open again or closed again.
C24_ClientClosedOnce ==
    /\ [] \A r \in Reqs :
             /\ req[r].pc = "idle" => req[r].client = "none"
             /\ req[r].pc \in {"ready", "inflight", "sleep"} => req[r].client = "open"
             /\ req[r].pc = "teardown"
                  => (req[r].client = "open" /\ req[r].response # None)
             /\ req[r].pc = "done" => req[r].client = "closed"
    /\ [][ \A r \in Reqs :
             /\ (req[r].client # "closed" /\ req'[r].client = "closed")
                  => /\ req[r].client = "open"
                     /\ req[r].pc = "teardown"
                     /\ req[r].response # None
                     /\ req'[r].attempts = req[r].attempts
             /\ req[r].client = "closed"
                  => (req'[r].client \in {"closed", "none"}
                      /\ req'[r].attempts <= req[r].attempts) ]_vars

\* a request answered 500 is over and its client is closed
C24_Witness ==
    \E r \in Reqs :
        /\ req[r].pc = "done"
        /\ req[r].client = "closed"
        /\ req[r].response # None
        /\ req[r].response[1].status = HTTP_500_INTERNAL_SERVER_ERROR
        /\ req[r].attempts >= 1

---------------------------------------------------------------------------
(* C25 *)

\* C25: the payloads of one invocation are all equal, each made of the
\* configured model and temperature, the messages built from the
\* configuration and the question, and max_tokens exactly when it is set;
\* two invocations with the same question under the same configuration
\* send equal payloads; and the step that builds a payload changes neither
\* the configuration nor the question nor anything of another request.
C25_SamePayloadOnEveryAttempt ==
    /\ [] /\ \A r \in Reqs : \A i, j \in 1..Len(req[r].sent) :
                /\ req[r].sent[i] = req[r].sent[j]
                /\ req[r].sent[i].model = settings.llm_model
                /\ req[r].sent[i].temperature = settings.llm_temperature
                /\ req[r].sent[i].messages = BuildMessages(settings, req[r].body[1])
                /\ ("max_tokens" \in DOMAIN req[r].sent[i]) = (settings.llm_max_tokens # None)
          /\ \A r, q \in Reqs :
                (req[r].sent # << >> /\ req[q].sent # << >> /\ req[r].body = req[q].body)
                    => req[r].sent[1] = req[q].sent[Len(req[q].sent)]
    /\ [][ \A r \in Reqs :
             Len(req'[r].sent) > Len(req[r].sent)
                 => /\ settings' = settings
                    /\ req'[r].body = req[r].body
                    /\ req'[r].hist = req[r].hist
                    /\ SubSeq(req'[r].sent, 1, Len(req[r].sent)) = req[r].sent
                    /\ \A q \in Reqs \ {r} : req'[q] = req[q] ]_vars

\* two requests with the same question are in progress, one on its third
\* attempt and one on its first
C25_Witness ==
    \E r, q \in Reqs :
        /\ r # q
        /\ req[r].pc = "inflight"
        /\ Len(req[r].sent) = 3
        /\ req[q].pc = "inflight"
        /\ Len(req[q].sent) = 1
        /\ req[r].body = req[q].body
        /\ req[r].sent[3] = req[q].sent[1]

---------------------------------------------------------------------------
(* C26 *)

\* C26: a response with status 429 comes only after exactly 3 attempts, the
\* third of which failed with RateLimited; a response with status 401 or
\* 502 comes from the failure of the last attempt, which no attempt
\* followed: the attempts before it, if any, failed with retryable kinds,
\* and the attempt count stays what it was when the response was made.
C26_429OnlyAfterBudgetSpent ==
    /\ [] \A r \in Reqs :
             (req[r].asked /\ req[r].response # None)
                 => LET status == req[r].response[1].status
                        n == Len(req[r].hist)
                    IN /\ status = 429
                            => /\ req[r].attempts = 3
                               /\ n = 3
                               /\ Kinds(r)[3] = "RateLimited"
                       /\ status \in {401, 502}
                            => /\ req[r].attempts = n
                               /\ req[r].pc \in {"teardown", "done"}
                               /\ Kinds(r)[n] \in (IF status = 401
                                                     THEN {"AuthenticationError"}
                                                     ELSE {"EmptyChoices", "EmptyContent",
                                                           "MalformedResponse"})
                               /\ \A i \in 1..(n - 1) : Kinds(r)[i] \in RetryableKinds
    /\ [][ \A r \in Reqs :
             (req[r].response # None /\ req'[r].response # None)
                 => (req'[r].attempts = req[r].attempts /\ req'[r].hist = req[r].hist) ]_vars

\* 429 after two provider-internal errors and a rate limit
C26_Witness ==
    \E r \in Reqs :
        /\ req[r].pc = "done"
        /\ req[r].response # None
        /\ req[r].response[1].status = 429
        /\ Kinds(r) = <<"ProviderInternalError", "ProviderInternalError", "RateLimited">>

====
